---- MODULE Spec2Model ----
(***************************************************************************)
(* Discrete Morse reduction of graded cell complexes over the two-element  *)
(* field: the coreduction matching (GenericMorseMatching), the hypercube   *)
(* template matching (CubicalMorseMatching), the reduced complex           *)
(* (MorseComplex) and its priority-driven flow.                            *)
(***************************************************************************)
EXTENDS Integers, Sequences, FiniteSets, Bags, TLC

\* ------------------------------------------------------------------------
\* Bounds of the model
\* ------------------------------------------------------------------------

\* grades range over 0..MaxGrade
MaxGrade == 1

\* chains handed to flow have at most MaxChain cells
MaxChain == 2

\* ------------------------------------------------------------------------
\* Chains: finite sets of cell ids, addition is symmetric difference
\* ------------------------------------------------------------------------

ChainAdd(a, b) == (a \ b) \cup (b \ a)

RECURSIVE ChainSum(_, _)
\* sum over x in S of f[x]
ChainSum(f, S) ==
  IF S = {} THEN {}
  ELSE LET x == CHOOSE y \in S : TRUE
       IN ChainAdd(f[x], ChainSum(f, S \ {x}))

RECURSIVE SortedSeq(_)
\* the elements of a finite set of integers in ascending order
SortedSeq(S) ==
  IF S = {} THEN << >>
  ELSE LET m == CHOOSE y \in S : \A z \in S : y <= z
       IN << m >> \o SortedSeq(S \ {m})

RECURSIVE Pow2(_)
Pow2(n) == IF n = 0 THEN 1 ELSE 2 * Pow2(n - 1)

\* ------------------------------------------------------------------------
\* Cubical complexes: shapes, positions, fringe, boundary
\* ------------------------------------------------------------------------

\* bit d of the bitmask shape is set
HasBit(shape, d) == (shape \div Pow2(d)) % 2 = 1

\* shape ^ bit for bit = 2^d
XorBit(shape, d) ==
  IF HasBit(shape, d) THEN shape - Pow2(d) ELSE shape + Pow2(d)

popcount_(shape, D) == Cardinality({d \in 0..(D - 1) : HasBit(shape, d)})

RECURSIVE PV(_, _)
\* place values: PV(boxes, d) = boxes[0] * ... * boxes[d-1]
PV(boxes, d) == IF d = 0 THEN 1 ELSE boxes[d] * PV(boxes, d - 1)

\* type of a shape: rank of the shape when shapes are stably sorted by
\* their number of set bits
TS(D, shape) ==
  Cardinality({s \in 0..(Pow2(D) - 1) :
     \/ popcount_(s, D) < popcount_(shape, D)
     \/ popcount_(s, D) = popcount_(shape, D) /\ s < shape})

CubTypeSize(boxes) == PV(boxes, Len(boxes))

CubSize(boxes) == CubTypeSize(boxes) * Pow2(Len(boxes))

CubShape(boxes, cell) ==
  CHOOSE s \in 0..(Pow2(Len(boxes)) - 1) :
     TS(Len(boxes), s) = cell \div CubTypeSize(boxes)

CubPos(boxes, cell) == cell % CubTypeSize(boxes)

\* coordinate of the cell along axis d
CubCoord(boxes, cell, d) ==
  (CubPos(boxes, cell) \div PV(boxes, d)) % boxes[d + 1]

\* a cell with extent along an axis on which it sits at the last position
CubRightFringe(boxes, cell) ==
  \E d \in 0..(Len(boxes) - 1) :
     /\ HasBit(CubShape(boxes, cell), d)
     /\ CubCoord(boxes, cell, d) = boxes[d + 1] - 1

\* the cell with the given shape at the position of cell
CubOffset(boxes, cell, shape) ==
  CubPos(boxes, cell) + CubTypeSize(boxes) * TS(Len(boxes), shape)

\* column of the boundary matrix: along every axis of extent the left face
\* (same position) and the right face (next position along the axis)
CubColumn(boxes, cell) ==
  LET shape == CubShape(boxes, cell)
      axes  == {d \in 0..(Len(boxes) - 1) : HasBit(shape, d)}
      left(d) == CubOffset(boxes, cell, XorBit(shape, d))
  IN  {left(d) : d \in axes}
      \cup {left(d) + PV(boxes, d) :
              d \in {e \in axes : CubCoord(boxes, cell, e) < boxes[e + 1] - 1}}

CubBegin(boxes, d) ==
  CubTypeSize(boxes)
    * Cardinality({s \in 0..(Pow2(Len(boxes)) - 1) : popcount_(s, Len(boxes)) < d})

CubicalComplex(boxes, gradings) ==
  [ kind   |-> "cubical",
    gradings |-> gradings,
    boxes  |-> boxes,
    size   |-> CubSize(boxes),
    dim    |-> Len(boxes),
    begin  |-> [d \in 0..(Len(boxes) + 1) |-> CubBegin(boxes, d)],
    shape  |-> [x \in 0..(CubSize(boxes) - 1) |-> CubShape(boxes, x)],
    flip   |-> [x \in 0..(CubSize(boxes) - 1) |->
                  [d \in 0..(Len(boxes) - 1) |->
                     CubOffset(boxes, x, XorBit(CubShape(boxes, x), d))]],
    fringe |-> {x \in 0..(CubSize(boxes) - 1) : CubRightFringe(boxes, x)},
    bd     |-> [x \in 0..(CubSize(boxes) - 1) |-> CubColumn(boxes, x)] ]

\* ------------------------------------------------------------------------
\* Generic complexes
\* ------------------------------------------------------------------------

GenericComplex(begin, bd) ==
  [ kind   |-> "generic",
    gradings |-> "all",
    boxes  |-> << >>,
    size   |-> begin[Len(begin)],
    dim    |-> Len(begin) - 2,
    begin  |-> [d \in 0..(Len(begin) - 1) |-> begin[d + 1]],
    shape  |-> [x \in 0..(begin[Len(begin)] - 1) |-> 0],
    flip   |-> << >>,
    fringe |-> {},
    bd     |-> [x \in 0..(begin[Len(begin)] - 1) |->
                  IF x \in DOMAIN bd THEN bd[x] ELSE {}] ]

\* S1: two vertices 0,1 and the edge 2
SingleEdge == GenericComplex(<<0, 2, 3>>, (2 :> {0, 1}))

\* S2: three vertices 0,1,2 and the edges 3,4,5 of a cycle
TriangleBoundary ==
  GenericComplex(<<0, 3, 6>>, (3 :> {0, 1}) @@ (4 :> {1, 2}) @@ (5 :> {0, 2}))

\* S3: the triangle with its 2-cell 6
SolidTriangle ==
  GenericComplex(<<0, 3, 6, 7>>,
     (3 :> {0, 1}) @@ (4 :> {1, 2}) @@ (5 :> {0, 2}) @@ (6 :> {3, 4, 5}))

\* a disc glued from two parallel edges 2,3 between the vertices 0,1
Bigon ==
  GenericComplex(<<0, 2, 4, 5>>, (2 :> {0, 1}) @@ (3 :> {0, 1}) @@ (4 :> {2, 3}))

Catalog ==
  << SingleEdge, TriangleBoundary, SolidTriangle, Bigon,
     CubicalComplex(<<2, 2>>, "closed"),
     CubicalComplex(<<2, 2, 2>>, "principal") >>

\* ------------------------------------------------------------------------
\* State
\* ------------------------------------------------------------------------

VARIABLES
  complex_,         \* the base complex: an entry of Catalog
  value,            \* the grading of the base complex
  truncate,         \* option: drop cells of grade above max_grade
  max_grade,        \* option
  match_dim,        \* option (generic backend): cap on the dimension
  verbose,          \* option: the flag the matching is asked for with
  entry,            \* the reducer that runs: "ConnectionMatrix" (and
                    \* ConnectionMatrixTower, the same loop) or "Homology"
  arg_match_dim,    \* the match_dim the reducer was called with
  tower,            \* ConnectionMatrixTower::tower
  pc,               \* "start", "matching", "matched", "error", "ub",
                    \* "complex", "flow", "flowed", "coflowed", "returned"
  mate_,            \* GenericMorseMatching::mate_
  priority_,        \* GenericMorseMatching::priority_
  boundary_count,   \* constructor local
  coreducible,      \* constructor local
  ace_candidates,   \* constructor local
  num_processed,    \* constructor local
  M,                \* constructor local: number of eligible cells
  Q,                \* constructor local: last queen chosen, -1 = not yet set
  quiet,            \* history: the same constructor run on the same input
                    \* with verbose = false and fed the same popped cells
  begin_,           \* MorseMatching::begin_
  reindex_,         \* MorseMatching::reindex_
  include_,         \* MorseComplex::include_
  project_,         \* MorseComplex::project_
  bd_,              \* MorseComplex::bd_
  input,            \* flow: the chain it was called with
  canonical,        \* flow local
  gamma,            \* flow local
  priority,         \* flow local: the priority queue, a bag of cells
  consumed,         \* history: how often flow processed each queen
  cocanonical,      \* coflow local
  cogamma           \* coflow local

matchvars == << mate_, priority_, boundary_count, coreducible, ace_candidates,
                num_processed, M, Q, quiet >>

tablevars == << begin_, reindex_ >>

complexvars == << include_, project_, bd_ >>

flowvars == << input, canonical, gamma, priority, consumed, cocanonical,
              cogamma >>

optvars == << complex_, value, truncate, max_grade, match_dim, verbose, entry,
              arg_match_dim, tower >>

vars == << optvars, pc, matchvars, tablevars, complexvars, flowvars >>

Base == complex_

Cells == 0..(Base.size - 1)

IsCubical == Base.kind = "cubical"

\* a cell that truncation does not drop
Eligible(x) == ~truncate \/ value[x] <= max_grade

\* complex.coboundary({x})
Coboundary(x) == {y \in Cells : x \in Base.bd[y]}

\* ------------------------------------------------------------------------
\* GenericMorseMatching
\* ------------------------------------------------------------------------

\* mutant of D: a match_dim of zero counts as valid
D_from_zero ==
  IF match_dim >= 0 /\ match_dim <= Base.dim THEN match_dim ELSE Base.dim

\* D: match_dim when it is valid, the dimension of the complex otherwise
D ==
  IF match_dim > 0 /\ match_dim <= Base.dim THEN match_dim ELSE Base.dim

\* N: the number of cells of dimension D and below
N == Base.begin[D + 1]

top_begin == Base.begin[D]

\* mutant of ClosureFails: a boundary cell one grade up is let through
ClosureFails_by_two(x) == \E y \in Base.bd[x] : value[y] > value[x] + 1

\* the closure property fails at x
ClosureFails(x) == \E y \in Base.bd[x] : value[y] > value[x]

\* graded boundary: the boundary cells of the grade of x
bd(x) == {y \in Base.bd[x] : value[y] = value[x]}

\* graded coboundary, computed only up to dimension D
cbd(x) ==
  IF x >= top_begin THEN {}
  ELSE {y \in Coboundary(x) : value[y] = value[x]}

\* the working state the lambda process captures
Work ==
  [ priority_ |-> priority_, num_processed |-> num_processed,
    coreducible |-> coreducible, ace_candidates |-> ace_candidates,
    boundary_count |-> boundary_count ]

\* mutant of process: the priority is the processing step alone
process_step_only(s, y) ==
  LET up  == cbd(y)
      cnt == [x \in DOMAIN s.boundary_count |->
                IF x \in up THEN s.boundary_count[x] - 1
                ELSE s.boundary_count[x]]
      to0 == {x \in up : cnt[x] = 0}
      to1 == {x \in up : cnt[x] = 1}
  IN  [ priority_ |-> [s.priority_ EXCEPT ![y] = s.num_processed],
        num_processed |-> s.num_processed + 1,
        coreducible |-> ((s.coreducible \ {y}) \ to0) \cup to1,
        ace_candidates |-> (s.ace_candidates \ {y}) \cup to0,
        boundary_count |-> cnt ]

\* mutant of process: a cell whose count falls to zero is not made an ace
\* candidate
process_no_ace(s, y) ==
  LET up  == cbd(y)
      cnt == [x \in DOMAIN s.boundary_count |->
                IF x \in up THEN s.boundary_count[x] - 1
                ELSE s.boundary_count[x]]
      to0 == {x \in up : cnt[x] = 0}
      to1 == {x \in up : cnt[x] = 1}
  IN  [ priority_ |->
          [s.priority_ EXCEPT ![y] = value[y] * M + s.num_processed],
        num_processed |-> s.num_processed + 1,
        coreducible |-> ((s.coreducible \ {y}) \ to0) \cup to1,
        ace_candidates |-> s.ace_candidates \ {y},
        boundary_count |-> cnt ]

\* mutant of process: the counts of the cells above y are left as they are
process_no_count(s, y) ==
  [ priority_ |->
      [s.priority_ EXCEPT ![y] = value[y] * M + s.num_processed],
    num_processed |-> s.num_processed + 1,
    coreducible |-> s.coreducible \ {y},
    ace_candidates |-> s.ace_candidates \ {y},
    boundary_count |-> s.boundary_count ]

\* the lambda process of the constructor
process(s, y) ==
  LET up  == cbd(y)
      cnt == [x \in DOMAIN s.boundary_count |->
                IF x \in up THEN s.boundary_count[x] - 1
                ELSE s.boundary_count[x]]
      to0 == {x \in up : cnt[x] = 0}
      to1 == {x \in up : cnt[x] = 1}
  IN  [ priority_ |->
          [s.priority_ EXCEPT ![y] = value[y] * M + s.num_processed],
        num_processed |-> s.num_processed + 1,
        coreducible |-> ((s.coreducible \ {y}) \ to0) \cup to1,
        ace_candidates |-> (s.ace_candidates \ {y}) \cup to0,
        boundary_count |-> cnt ]

SetWork(s) ==
  /\ priority_' = s.priority_
  /\ num_processed' = s.num_processed
  /\ coreducible' = s.coreducible
  /\ ace_candidates' = s.ace_candidates
  /\ boundary_count' = s.boundary_count

\* num_processed after the initialisation loop: with verbose it has counted
\* the N cells for the progress bar
num_processed_after_init(v) == IF v THEN N ELSE 0

\* mutant of num_processed_at_loop: the counter is not set back
num_processed_no_reset(v) == num_processed_after_init(v)

\* num_processed at the head of the main loop: with verbose it is set back
\* to 0 once the progress bar of the initialisation is done
num_processed_at_loop(v) == IF v THEN 0 ELSE num_processed_after_init(v)

\* the second run at the head of its main loop
QuietStart(m, p, c, a, b) ==
  [ mate_ |-> m,
    work |-> [ priority_ |-> p, num_processed |-> num_processed_at_loop(FALSE),
               coreducible |-> c, ace_candidates |-> a,
               boundary_count |-> b ],
    begin_ |-> << >>,
    reindex_ |-> << >> ]

\* mutant of Initialize: every cell with a non-empty graded boundary starts
\* out coreducible
Initialize_eager ==
  /\ pc = "start"
  /\ ~IsCubical
  /\ IF \E x \in 0..(N - 1) : Eligible(x) /\ ClosureFails(x)
     THEN /\ pc' = "error"
          /\ UNCHANGED << matchvars >>
     ELSE LET elig == {x \in 0..(N - 1) : Eligible(x)}
          IN  /\ mate_' = [x \in 0..(N - 1) |-> -1]
              /\ priority_' = [x \in 0..(N - 1) |-> 0]
              /\ num_processed' = 0
              /\ boundary_count' =
                   [x \in 0..(N - 1) |->
                      IF x \in elig THEN Cardinality(bd(x)) ELSE 0]
              /\ ace_candidates' = {x \in elig : Cardinality(bd(x)) = 0}
              /\ coreducible' = {x \in elig : Cardinality(bd(x)) >= 1}
              /\ M' = Cardinality(elig)
              /\ Q' = -1
              /\ quiet' = QuietStart(mate_', priority_', coreducible',
                                     ace_candidates', boundary_count')
              /\ pc' = "matching"
  /\ UNCHANGED << optvars, tablevars, complexvars, flowvars >>

\* mutant of Initialize: no cell starts out coreducible
Initialize_no_coreducible ==
  /\ pc = "start"
  /\ ~IsCubical
  /\ IF \E x \in 0..(N - 1) : Eligible(x) /\ ClosureFails(x)
     THEN /\ pc' = "error"
          /\ UNCHANGED << matchvars >>
     ELSE LET elig == {x \in 0..(N - 1) : Eligible(x)}
          IN  /\ mate_' = [x \in 0..(N - 1) |-> -1]
              /\ priority_' = [x \in 0..(N - 1) |-> 0]
              /\ num_processed' = 0
              /\ boundary_count' =
                   [x \in 0..(N - 1) |->
                      IF x \in elig THEN Cardinality(bd(x)) ELSE 0]
              /\ ace_candidates' = {x \in elig : Cardinality(bd(x)) = 0}
              /\ coreducible' = {}
              /\ M' = Cardinality(elig)
              /\ Q' = -1
              /\ quiet' = QuietStart(mate_', priority_', coreducible',
                                     ace_candidates', boundary_count')
              /\ pc' = "matching"
  /\ UNCHANGED << optvars, tablevars, complexvars, flowvars >>

\* constructor up to the main loop: sizes the tables and counts the graded
\* boundary of every eligible cell; throws when the closure property fails
Initialize ==
  /\ pc = "start"
  /\ ~IsCubical
  /\ IF \E x \in 0..(N - 1) : Eligible(x) /\ ClosureFails(x)
     THEN /\ pc' = "error"
          /\ UNCHANGED << matchvars >>
     ELSE LET elig == {x \in 0..(N - 1) : Eligible(x)}
          IN  /\ mate_' = [x \in 0..(N - 1) |-> -1]
              /\ priority_' = [x \in 0..(N - 1) |-> 0]
              /\ num_processed' = num_processed_at_loop(verbose)
              /\ boundary_count' =
                   [x \in 0..(N - 1) |->
                      IF x \in elig THEN Cardinality(bd(x)) ELSE 0]
              /\ ace_candidates' = {x \in elig : Cardinality(bd(x)) = 0}
              /\ coreducible' = {x \in elig : Cardinality(bd(x)) = 1}
              /\ M' = Cardinality(elig)
              /\ Q' = -1
              /\ quiet' = QuietStart(mate_', priority_', coreducible',
                                     ace_candidates', boundary_count')
              /\ pc' = "matching"
  /\ UNCHANGED << optvars, tablevars, complexvars, flowvars >>

\* the second run takes the coreducible branch with the same K and Q
QuietKing(K, q) ==
  [quiet EXCEPT
     !.mate_ = [[@ EXCEPT ![K] = q] EXCEPT ![q] = K],
     !.work = process(process([@ EXCEPT !.coreducible = @ \ {K}], q), K)]

\* the second run takes the ace branch with the same A
QuietAce(A) ==
  [quiet EXCEPT
     !.mate_ = [@ EXCEPT ![A] = A],
     !.work = process([@ EXCEPT !.ace_candidates = @ \ {A}], A)]

\* mutant of MatchKing: the mate of Q is not recorded
MatchKing_one_way ==
  /\ pc = "matching"
  /\ num_processed < M
  /\ coreducible # {}
  /\ \E K \in coreducible :
       LET unmatched == {x \in bd(K) : mate_[x] = -1}
           found == IF unmatched # {} THEN unmatched
                    ELSE IF Q = -1 THEN 0..(N - 1) ELSE {Q}
       IN  \E q \in found :
             /\ Q' = q
             /\ mate_' = [mate_ EXCEPT ![K] = q]
             /\ SetWork(process(process(
                   [Work EXCEPT !.coreducible = coreducible \ {K}], q), K))
             /\ quiet' = QuietKing(K, q)
  /\ UNCHANGED << optvars, pc, M, tablevars, complexvars, flowvars >>

\* one iteration of the main loop that pops a coreducible cell K
MatchKing ==
  /\ pc = "matching"
  /\ num_processed < M
  /\ coreducible # {}
  /\ \E K \in coreducible :
       LET unmatched == {x \in bd(K) : mate_[x] = -1}
           \* Q is left as it was when the search finds nothing
           found == IF unmatched # {} THEN unmatched
                    ELSE IF Q = -1 THEN 0..(N - 1) ELSE {Q}
       IN  \E q \in found :
             /\ Q' = q
             /\ mate_' = [[mate_ EXCEPT ![K] = q] EXCEPT ![q] = K]
             /\ SetWork(process(process(
                   [Work EXCEPT !.coreducible = coreducible \ {K}], q), K))
             /\ quiet' = QuietKing(K, q)
  /\ UNCHANGED << optvars, pc, M, tablevars, complexvars, flowvars >>

\* one iteration of the main loop that pops an ace candidate A
MatchAce ==
  /\ pc = "matching"
  /\ num_processed < M
  /\ coreducible = {}
  /\ IF ace_candidates = {}
     THEN \* begin() of an empty set is dereferenced
          /\ pc' = "ub"
          /\ UNCHANGED << matchvars >>
     ELSE \E A \in ace_candidates :
          /\ mate_' = [mate_ EXCEPT ![A] = A]
          /\ SetWork(process(
                [Work EXCEPT !.ace_candidates = ace_candidates \ {A}], A))
          /\ quiet' = QuietAce(A)
          /\ UNCHANGED << pc, M, Q >>
  /\ UNCHANGED << optvars, tablevars, complexvars, flowvars >>

\* the cells of dimension d
CellsOfDim(d) == Base.begin[d]..(Base.begin[d + 1] - 1)

RECURSIVE generic_critical_cells(_, _, _, _, _)
\* the loop that computes the critical cells of the mate table m, from
\* dimension d on
generic_critical_cells(m, d, idx, begin, reindex) ==
  IF d > D THEN [begin_ |-> begin @@ ((D + 1) :> idx), reindex_ |-> reindex]
  ELSE LET aces == SortedSeq({v \in CellsOfDim(d) :
                                 Eligible(v) /\ m[v] = v})
       IN  generic_critical_cells(m, d + 1, idx + Len(aces),
              begin @@ (d :> idx),
              reindex \o [i \in 1..Len(aces) |-> << aces[i], idx + i - 1 >>])

\* the end of the constructor: the main loop is over, the table of critical
\* cells is computed
CriticalCells ==
  /\ pc = "matching"
  /\ ~(num_processed < M)
  /\ LET t == generic_critical_cells(mate_, 0, 0, << >>, << >>)
         u == generic_critical_cells(quiet.mate_, 0, 0, << >>, << >>)
     IN  /\ begin_' = t.begin_
         /\ reindex_' = t.reindex_
         /\ quiet' = [quiet EXCEPT !.begin_ = u.begin_,
                                   !.reindex_ = u.reindex_]
  \* with verbose the counter is set back and counts the N cells again
  /\ num_processed' = IF verbose THEN N ELSE num_processed
  /\ pc' = "matched"
  /\ UNCHANGED << optvars, mate_, priority_, boundary_count, coreducible,
                  ace_candidates, M, Q, complexvars, flowvars >>

\* ------------------------------------------------------------------------
\* CubicalMorseMatching
\* ------------------------------------------------------------------------

type_size_ == CubTypeSize(Base.boxes)

rightfringe(x) == x \in Base.fringe

\* mutant of cubical_mate_: a proposed mate is accepted without asking
\* whether it is matched along an earlier axis
cubical_mate_greedy(cell, dmax, initial) ==
  IF rightfringe(cell) THEN cell
  ELSE LET shape == Base.shape[cell]
           proposed_mate(d) == Base.flip[cell][d]
           accepts(d) ==
             /\ ~(initial /\ HasBit(shape, d))
             /\ ~rightfringe(proposed_mate(d))
             /\ value[proposed_mate(d)] = value[cell]
           axes == {d \in 0..(dmax - 1) : accepts(d)}
       IN  IF axes = {} THEN cell
           ELSE proposed_mate(CHOOSE d \in axes : \A e \in axes : d <= e)

RECURSIVE cubical_mate_(_, _, _)
\* mate_(cell, D, initial): the first axis below D along which the cell at
\* the same position is not fringe, has the grade of cell and has no mate
\* along an earlier axis
cubical_mate_(cell, dmax, initial) ==
  IF rightfringe(cell) THEN cell
  ELSE LET shape == Base.shape[cell]
           proposed_mate(d) == Base.flip[cell][d]
           accepts(d) ==
             /\ ~(initial /\ HasBit(shape, d))
             /\ ~rightfringe(proposed_mate(d))
             /\ value[proposed_mate(d)] = value[cell]
             /\ proposed_mate(d) = cubical_mate_(proposed_mate(d), d, FALSE)
           axes == {d \in 0..(dmax - 1) : accepts(d)}
       IN  IF axes = {} THEN cell
           ELSE proposed_mate(CHOOSE d \in axes : \A e \in axes : d <= e)

RECURSIVE cubical_critical_cells_all(_, _, _, _, _, _)
\* mutant of cubical_critical_cells: the kings found in the previous
\* dimension are not discarded
cubical_critical_cells_all(trunc, d, idx, prev_kings, begin, reindex) ==
  IF d > Base.dim
  THEN [begin_ |-> begin @@ ((Base.dim + 1) :> idx), reindex_ |-> reindex]
  ELSE LET kept == {v \in CellsOfDim(d) :
                      /\ ~rightfringe(v)
                      /\ (~trunc \/ value[v] <= max_grade)}
           queens == {v \in kept : cubical_mate_(v, Base.dim, TRUE) # v}
           aces == SortedSeq(kept \ queens)
           next_kings == {cubical_mate_(v, Base.dim, TRUE) : v \in queens}
       IN  cubical_critical_cells_all(trunc, d + 1, idx + Len(aces), next_kings,
              begin @@ (d :> idx),
              reindex \o [i \in 1..Len(aces) |-> << aces[i], idx + i - 1 >>])

RECURSIVE cubical_critical_cells(_, _, _, _, _, _)
\* the constructor's loop over the dimensions, from dimension d on
cubical_critical_cells(trunc, d, idx, prev_kings, begin, reindex) ==
  IF d > Base.dim
  THEN [begin_ |-> begin @@ ((Base.dim + 1) :> idx), reindex_ |-> reindex]
  ELSE LET kept == {v \in CellsOfDim(d) :
                      /\ ~rightfringe(v)
                      /\ (~trunc \/ value[v] <= max_grade)
                      /\ v \notin prev_kings}
           queens == {v \in kept : cubical_mate_(v, Base.dim, TRUE) # v}
           aces == SortedSeq(kept \ queens)
           next_kings == {cubical_mate_(v, Base.dim, TRUE) : v \in queens}
       IN  cubical_critical_cells(trunc, d + 1, idx + Len(aces), next_kings,
              begin @@ (d :> idx),
              reindex \o [i \in 1..Len(aces) |-> << aces[i], idx + i - 1 >>])

\* the truncate the constructor runs with when it is asked for with the
\* flag v: the constructor for a plain complex, which Homology reaches,
\* hands v on in the place of truncate
cubical_truncate(v) == IF entry = "Homology" THEN v ELSE truncate

\* the verbose the constructor runs with: the default false when it is
\* reached through the constructor for a plain complex
cubical_verbose(v) == IF entry = "Homology" THEN FALSE ELSE v

\* the constructor of CubicalMorseMatching
CubicalConstruct ==
  /\ pc = "start"
  /\ IsCubical
  /\ LET t == cubical_critical_cells(cubical_truncate(verbose), 0, 0, {},
                                     << >>, << >>)
         u == cubical_critical_cells(cubical_truncate(FALSE), 0, 0, {},
                                     << >>, << >>)
     IN  /\ begin_' = t.begin_
         /\ reindex_' = t.reindex_
         /\ quiet' = [ mate_ |-> << >>, work |-> << >>,
                       begin_ |-> u.begin_, reindex_ |-> u.reindex_ ]
  \* the counter is set to 0 and counts every cell, with verbose only
  /\ num_processed' = IF cubical_verbose(verbose) THEN Base.size
                      ELSE num_processed
  /\ pc' = "matched"
  /\ UNCHANGED << optvars, mate_, priority_, boundary_count, coreducible,
                  ace_candidates, M, Q, complexvars, flowvars >>

\* ------------------------------------------------------------------------
\* The matching as MorseComplex sees it
\* ------------------------------------------------------------------------

\* the cells the matching has an entry for
Matched == IF IsCubical THEN Cells ELSE 0..(N - 1)

mate(x) ==
  IF IsCubical THEN cubical_mate_(x, Base.dim, FALSE) ELSE mate_[x]

priorityOf(x) ==
  IF IsCubical THEN type_size_ - (x % type_size_) ELSE priority_[x]

\* ------------------------------------------------------------------------
\* MorseComplex: flow
\* ------------------------------------------------------------------------

isQueen(x) == x < mate(x)

NoCopies == [x \in Cells |-> 0]

\* the bag with one copy of every cell of S
Copies(S) == [x \in Cells |-> IF x \in S THEN 1 ELSE 0]

QueueAdd(q, S) == [x \in Cells |-> IF x \in S THEN q[x] + 1 ELSE q[x]]

QueueEmpty(q) == \A x \in Cells : q[x] = 0

\* the cells priority.top() may return: those no other queued cell is
\* strictly above
QueueTop(q) ==
  LET queued == {x \in Cells : q[x] > 0}
  IN  {x \in queued : \A y \in queued : ~(priorityOf(x) < priorityOf(y))}

\* mutant of flow_seed: process adds the cell but never pushes a queen
flow_seed_no_push(c) ==
  [ canonical |-> c, gamma |-> {}, priority |-> NoCopies,
    consumed |-> NoCopies ]

\* flow's state after `for (auto x : input) process(x)`
flow_seed(c) ==
  [ canonical |-> c, gamma |-> {}, priority |-> Copies({x \in c : isQueen(x)}),
    consumed |-> NoCopies ]

\* mutant of flow_iteration: only the boundary cells of the king's grade
\* are added to canonical
flow_iteration_graded(f, queen) ==
  LET popped == [f.priority EXCEPT ![queen] = @ - 1]
      king   == mate(queen)
  IN  IF queen \notin f.canonical
      THEN [f EXCEPT !.priority = popped]
      ELSE [ canonical |-> ChainAdd(f.canonical, bd(king)),
             gamma     |-> ChainAdd(f.gamma, {king}),
             priority  |-> QueueAdd(popped, {x \in Base.bd[king] : isQueen(x)}),
             consumed  |-> [f.consumed EXCEPT ![queen] = @ + 1] ]

\* one iteration of flow's while loop, queen being the popped cell
flow_iteration(f, queen) ==
  LET popped == [f.priority EXCEPT ![queen] = @ - 1]
      king   == mate(queen)
  IN  IF queen \notin f.canonical
      THEN [f EXCEPT !.priority = popped]
      ELSE [ canonical |-> ChainAdd(f.canonical, Base.bd[king]),
             gamma     |-> ChainAdd(f.gamma, {king}),
             priority  |-> QueueAdd(popped, {x \in Base.bd[king] : isQueen(x)}),
             consumed  |-> [f.consumed EXCEPT ![queen] = @ + 1] ]

RECURSIVE flow_run(_)
\* flow's while loop run to its end
flow_run(f) ==
  IF QueueEmpty(f.priority) THEN f
  ELSE flow_run(flow_iteration(f, CHOOSE x \in QueueTop(f.priority) : TRUE))

\* flow(c) as the constructor of MorseComplex calls it
flow(c) == flow_run(flow_seed(c))

\* ------------------------------------------------------------------------
\* MorseComplex: construction, include, project, lower, boundary
\* ------------------------------------------------------------------------

\* dim_ and size() of the reduced complex, read off the begin table
dim_ == Cardinality(DOMAIN begin_) - 2

size == begin_[dim_ + 1]

include(c) == {include_[x] : x \in c}

project(c) == {project_[x] : x \in (c \cap DOMAIN project_)}

\* the first pair of the table with the given old id
FirstPair(table, old) ==
  table[CHOOSE i \in 1..Len(table) :
          /\ table[i][1] = old
          /\ \A j \in 1..(i - 1) : table[j][1] # old]

\* mutant of project_map: a cell is mapped to its position in the table,
\* counted from one
project_map_position(table) ==
  [old \in {table[i][1] : i \in 1..Len(table)} |->
     CHOOSE i \in 1..Len(table) : table[i][1] = old]

\* the unordered_map built from the pairs of the table
project_map(table) ==
  [old \in {table[i][1] : i \in 1..Len(table)} |-> FirstPair(table, old)[2]]

\* mutant of lower_with: the chain is projected without being flowed
lower_without_flow(proj, c) == {proj[x] : x \in (c \cap DOMAIN proj)}

lower_with(proj, c) == {proj[x] : x \in (flow(c).canonical \cap DOMAIN proj)}

\* the constructor of MorseComplex
MorseComplex ==
  /\ pc = "matched"
  /\ include_' = [a \in 0..(size - 1) |-> reindex_[a + 1][1]]
  /\ project_' = project_map(reindex_)
  /\ bd_' = [a \in 0..(size - 1) |->
               lower_with(project_map(reindex_), Base.bd[reindex_[a + 1][1]])]
  /\ pc' = "complex"
  /\ UNCHANGED << optvars, matchvars, tablevars, flowvars >>

\* MorseComplex::boundary
boundary(c) == ChainSum(bd_, c)

\* mutant of lift: gamma is left out
lift_included_only(c) == include(c)

\* MorseComplex::lift
lift(c) ==
  LET included == include(c)
  IN  ChainAdd(included, flow(ChainSum(Base.bd, included)).gamma)

\* ------------------------------------------------------------------------
\* MorseComplex::flow, step by step
\* ------------------------------------------------------------------------

RECURSIVE ChainsUpTo(_, _)
\* the subsets of S with at most k elements
ChainsUpTo(S, k) ==
  IF k = 0 THEN {{}}
  ELSE LET P == ChainsUpTo(S, k - 1)
       IN  P \cup {p \cup {x} : p \in P, x \in S}

FlowState ==
  [ canonical |-> canonical, gamma |-> gamma, priority |-> priority,
    consumed |-> consumed ]

SetFlow(f) ==
  /\ canonical' = f.canonical
  /\ gamma' = f.gamma
  /\ priority' = f.priority
  /\ consumed' = f.consumed
  /\ UNCHANGED << cocanonical, cogamma >>

\* flow is called with a chain of cells of the base complex: cells the
\* matching covers that are not fringe
FlowCall ==
  /\ pc = "complex"
  /\ \E c \in ChainsUpTo(Matched \ Base.fringe, MaxChain) :
       /\ input' = c
       /\ SetFlow(flow_seed(c))
  /\ pc' = "flow"
  /\ UNCHANGED << optvars, matchvars, tablevars, complexvars >>

\* one iteration of the while loop
FlowPop ==
  /\ pc = "flow"
  /\ ~QueueEmpty(priority)
  /\ \E queen \in QueueTop(priority) : SetFlow(flow_iteration(FlowState, queen))
  /\ UNCHANGED << optvars, pc, matchvars, tablevars, complexvars, input >>

\* the queue is empty: flow returns {canonical, gamma}
FlowReturn ==
  /\ pc = "flow"
  /\ QueueEmpty(priority)
  /\ pc' = "flowed"
  /\ UNCHANGED << optvars, matchvars, tablevars, complexvars, flowvars >>

\* ------------------------------------------------------------------------
\* MorseComplex::coflow
\* ------------------------------------------------------------------------

isKing(x) == x > mate(x)

\* row x of the boundary matrix of the base complex
row(x) == {y \in Cells : x \in Base.bd[y]}

\* the cells priority.top() may return under coflow's reversed comparator:
\* those no other queued cell is strictly below
CoqueueTop(q) ==
  LET queued == {x \in Cells : q[x] > 0}
  IN  {x \in queued : \A y \in queued : ~(priorityOf(x) > priorityOf(y))}

\* coflow's state after `for (auto x : input) process(x)`; oob records a
\* call of row outside the cells of the base complex
coflow_seed(c) ==
  [ cocanonical |-> c, cogamma |-> {},
    priority |-> Copies({x \in c : isKing(x)}), oob |-> FALSE ]

\* one iteration of coflow's while loop, king being the popped cell; a
\* queen that is no cell (the mate -1 of a cell the matching dropped) makes
\* row read outside the coboundary table: here the read yields no cell
coflow_iteration(f, king) ==
  LET popped == [f.priority EXCEPT ![king] = @ - 1]
      queen  == mate(king)
  IN  IF king \notin f.cocanonical
      THEN [f EXCEPT !.priority = popped]
      ELSE IF queen \notin Cells
      THEN [ cocanonical |-> f.cocanonical,
             cogamma     |-> ChainAdd(f.cogamma, {queen}),
             priority    |-> popped,
             oob         |-> TRUE ]
      ELSE [ cocanonical |-> ChainAdd(f.cocanonical, row(queen)),
             cogamma     |-> ChainAdd(f.cogamma, {queen}),
             priority    |-> QueueAdd(popped, {x \in row(queen) : isKing(x)}),
             oob         |-> f.oob ]

RECURSIVE coflow_run(_)
\* coflow's while loop run to its end
coflow_run(f) ==
  IF QueueEmpty(f.priority) THEN f
  ELSE coflow_run(
         coflow_iteration(f, CHOOSE x \in CoqueueTop(f.priority) : TRUE))

coflow(c) == coflow_run(coflow_seed(c))

\* coflow is called with a chain of cells of the base complex the matching
\* covers; after a read outside the coboundary table the call either dies
\* or goes on to return
CoflowCall ==
  /\ pc = "complex"
  /\ \E c \in ChainsUpTo(Matched \ Base.fringe, MaxChain) :
       /\ input' = c
       /\ cocanonical' = coflow(c).cocanonical
       /\ cogamma' = coflow(c).cogamma
       /\ pc' \in (IF coflow(c).oob THEN {"ub", "coflowed"} ELSE {"coflowed"})
  /\ UNCHANGED << optvars, matchvars, tablevars, complexvars, canonical, gamma,
                  priority, consumed >>

\* ------------------------------------------------------------------------
\* Inputs: graded complexes and options
\* ------------------------------------------------------------------------

RealCells(c) == (0..(c.size - 1)) \ c.fringe

\* the closure property on the cells that are not fringe
ClosureProperty(c, g) ==
  \A x \in RealCells(c) : \A y \in c.bd[x] : g[y] <= g[x]

\* a grading of the cells that are not fringe, extended by 0
Extend(c, h) == [x \in 0..(c.size - 1) |-> IF x \in DOMAIN h THEN h[x] ELSE 0]

RECURSIVE Closure(_, _)
\* the cells of S and all their faces
Closure(c, S) ==
  LET T == S \cup UNION {c.bd[x] : x \in S}
  IN  IF T = S THEN S ELSE Closure(c, T)

\* the gradings of a catalog entry: every map to 0..MaxGrade ("all"), those
\* with the closure property ("closed"), or those that are 0 on the closure
\* of one cell and constant elsewhere ("principal")
Gradings(c) ==
  CASE c.gradings = "all" -> [0..(c.size - 1) -> 0..MaxGrade]
    [] c.gradings = "closed" ->
         {Extend(c, h) : h \in {k \in [RealCells(c) -> 0..MaxGrade] :
                                   ClosureProperty(c, Extend(c, k))}}
    [] OTHER ->
         {Extend(c, [x \in RealCells(c) |->
                       IF x \in Closure(c, {z}) THEN 0 ELSE g]) :
            z \in RealCells(c), g \in 0..MaxGrade}

\* ------------------------------------------------------------------------
\* MorseGradedComplex and the fixed-point reducers
\* ------------------------------------------------------------------------

\* the MorseComplex just built, as the Complex the next round is given
NextComplex ==
  [ kind   |-> "generic",
    gradings |-> "all",
    boxes  |-> << >>,
    size   |-> size,
    dim    |-> dim_,
    begin  |-> begin_,
    shape  |-> [x \in 0..(size - 1) |-> 0],
    flip   |-> << >>,
    fringe |-> {},
    bd     |-> bd_ ]

\* mutant of graded_complex_mapping: the grade is read at the new id
graded_complex_mapping_at_new_id == [x \in 0..(size - 1) |-> value[x]]

\* MorseGradedComplex: a new cell gets the grade of the cell it includes
graded_complex_mapping == [x \in 0..(size - 1) |-> value[include_[x]]]

\* the state in which the constructor of the next matching starts
Restart ==
  /\ pc' = "start"
  /\ mate_' = << >>
  /\ priority_' = << >>
  /\ boundary_count' = << >>
  /\ coreducible' = {}
  /\ ace_candidates' = {}
  /\ num_processed' = 0
  /\ M' = 0
  /\ Q' = -1
  /\ quiet' = << >>
  /\ begin_' = << >>
  /\ reindex_' = << >>
  /\ include_' = << >>
  /\ project_' = << >>
  /\ bd_' = << >>

\* mutant of ConnectionMatrix: the loop goes on until the complex is empty
ConnectionMatrix_until_empty ==
  /\ pc = "complex"
  /\ entry = "ConnectionMatrix"
  /\ IF size # 0
     THEN /\ complex_' = NextComplex
          /\ value' = graded_complex_mapping
          /\ tower' = IF size # Base.size
                      THEN Append(tower, [complex |-> NextComplex,
                                          value |-> graded_complex_mapping])
                      ELSE tower
          /\ Restart
     ELSE /\ pc' = "returned"
          /\ UNCHANGED << complex_, value, tower, matchvars, tablevars,
                          complexvars >>
  /\ UNCHANGED << truncate, max_grade, match_dim, verbose, entry, arg_match_dim,
                  flowvars >>

\* mutant of ConnectionMatrix: the complex of the last round is pushed too
ConnectionMatrix_push_last ==
  /\ pc = "complex"
  /\ entry = "ConnectionMatrix"
  /\ tower' = Append(tower, [complex |-> NextComplex,
                             value |-> graded_complex_mapping])
  /\ IF size # Base.size
     THEN /\ complex_' = NextComplex
          /\ value' = graded_complex_mapping
          /\ Restart
     ELSE /\ pc' = "returned"
          /\ UNCHANGED << complex_, value, matchvars, tablevars, complexvars >>
  /\ UNCHANGED << truncate, max_grade, match_dim, verbose, entry, arg_match_dim,
                  flowvars >>

\* the loop test of ConnectionMatrix and ConnectionMatrixTower, and the
\* start of the next round: tower.push_back(next); base = next
ConnectionMatrix ==
  /\ pc = "complex"
  /\ entry = "ConnectionMatrix"
  /\ IF size # Base.size
     THEN /\ complex_' = NextComplex
          /\ value' = graded_complex_mapping
          /\ tower' = Append(tower, [complex |-> NextComplex,
                                     value |-> graded_complex_mapping])
          /\ Restart
     ELSE /\ pc' = "returned"
          /\ UNCHANGED << complex_, value, tower, matchvars, tablevars,
                          complexvars >>
  /\ UNCHANGED << truncate, max_grade, match_dim, verbose, entry, arg_match_dim,
                  flowvars >>

\* the loop test of Homology and the start of its next round; every round
\* the matching is given the trivial grading
Homology ==
  /\ pc = "complex"
  /\ entry = "Homology"
  /\ IF size # Base.size
     THEN /\ complex_' = NextComplex
          /\ value' = [x \in 0..(size - 1) |-> 0]
          /\ Restart
     ELSE /\ pc' = "returned"
          /\ UNCHANGED << complex_, value, matchvars, tablevars, complexvars >>
  /\ UNCHANGED << truncate, max_grade, match_dim, verbose, entry, arg_match_dim, tower,
                  flowvars >>

\* what the matching receives as match_dim when Homology is called with m:
\* Homology hands m to MorseComplex(base, bool verbose); compute_matching
\* is declared with (complex, verbose), which leaves match_dim at its
\* default, and defined with (complex, match_dim, verbose), which turns the
\* bool into the match_dim 0 or 1
HomologyMatchDim(m) == {-1, IF m # 0 THEN 1 ELSE 0}

\* the arguments of ConnectionMatrix / ConnectionMatrixTower
InitConnectionMatrix ==
  /\ entry = "ConnectionMatrix"
  /\ value \in Gradings(complex_)
  /\ truncate \in BOOLEAN
  /\ max_grade \in (IF truncate THEN 0..(MaxGrade - 1) ELSE {0})
  /\ arg_match_dim \in (IF complex_.kind = "cubical" THEN {-1}
                        ELSE (-1)..complex_.dim)
  /\ match_dim = arg_match_dim

\* the arguments of Homology
InitHomology ==
  /\ entry = "Homology"
  /\ value = [x \in 0..(complex_.size - 1) |-> 0]
  /\ truncate = FALSE
  /\ max_grade = 0
  /\ arg_match_dim \in (-1)..complex_.dim
  /\ match_dim \in HomologyMatchDim(arg_match_dim)

\* the state in which a reducer starts, whatever verbose is
VerboseInit ==
  /\ complex_ \in {Catalog[i] : i \in 1..Len(Catalog)}
  /\ verbose \in BOOLEAN
  /\ InitConnectionMatrix \/ InitHomology
  /\ tower = << [complex |-> complex_, value |-> value] >>
  /\ pc = "start"
  /\ mate_ = << >>
  /\ priority_ = << >>
  /\ boundary_count = << >>
  /\ coreducible = {}
  /\ ace_candidates = {}
  /\ num_processed = 0
  /\ M = 0
  /\ Q = -1
  /\ quiet = << >>
  /\ begin_ = << >>
  /\ reindex_ = << >>
  /\ include_ = << >>
  /\ project_ = << >>
  /\ bd_ = << >>
  /\ input = {}
  /\ canonical = {}
  /\ gamma = {}
  /\ priority = << >>
  /\ consumed = << >>
  /\ cocanonical = {}
  /\ cogamma = {}

\* a reducer started without progress reporting
Init == VerboseInit /\ verbose = FALSE

Next ==
  \/ Initialize
  \/ MatchKing
  \/ MatchAce
  \/ CriticalCells
  \/ CubicalConstruct
  \/ MorseComplex
  \/ FlowCall
  \/ FlowPop
  \/ FlowReturn
  \/ CoflowCall
  \/ ConnectionMatrix
  \/ Homology

Spec == Init /\ [][Next]_vars

\* the reducers alone, no call of flow from outside; a reducer is a
\* sequential program, so a step that can be taken is taken
Reduce ==
  \/ Initialize
  \/ MatchKing
  \/ MatchAce
  \/ CriticalCells
  \/ CubicalConstruct
  \/ MorseComplex
  \/ ConnectionMatrix
  \/ Homology

\* a reducer that has not returned or thrown takes its next step: every
\* step of Reduce changes pc or, inside the main loop of the generic
\* constructor, adds to num_processed
Running == pc \in {"start", "matching", "matched", "complex"}

Advance ==
  /\ Running
  /\ pc' \in {"start", "matching", "matched", "complex", "returned", "error",
              "ub"}
  /\ num_processed' \in {0, num_processed + 1, num_processed + 2}

FairSpec ==
  Init /\ [][Reduce]_vars /\ WF_<< pc, num_processed >>(Advance)

\* the reducers alone, with and without progress reporting
VerboseSpec == VerboseInit /\ [][Reduce]_vars

\* ------------------------------------------------------------------------
\* Properties
\* ------------------------------------------------------------------------

\* base.boundary(c)
BaseBoundary(c) == ChainSum(Base.bd, c)

C3_ConsumedOnce ==
  pc \in {"flow", "flowed"} => \A x \in Cells : consumed[x] <= 1

\* C4: the induced boundary squares to zero: M.boundary(M.boundary({a})) is
\* empty for every critical cell a
C4_BoundarySquaredZero ==
  pc = "complex" => \A a \in 0..(size - 1) : boundary(boundary({a})) = {}

\* a reduced complex with an induced boundary entry that is no face
C4_Witness ==
  /\ pc = "complex"
  /\ \E a \in 0..(size - 1) : \E b \in bd_[a] :
        /\ include_[b] \notin Base.bd[include_[a]]
        /\ \E e \in 0..(size - 1) : bd_[e] # {} /\ a \in bd_[e]

\* the values a read of mate_ outside its bounds may produce
Unspecified == (-1)..Base.size

\* GenericMorseMatching::mate: mate_[x], an unspecified value g when x is
\* not an index of mate_
mate_at(x, g) == IF x \in DOMAIN mate_ THEN mate_[x] ELSE g

\* C5 as stated: after the generic matching is constructed, with any
\* options, mate(mate(x)) = x for every cell x of the base complex
C5_InvolutionEveryCell ==
  (pc = "matched" /\ ~IsCubical) =>
    \A x \in Cells : \A g \in Unspecified :
      mate_at(mate_at(x, g), g) = x

\* C5: after the generic matching is constructed, every cell x it has
\* processed (x below the end of dimension D and, under truncate, of grade at
\* most max_grade) has a processed cell as mate and mate(mate(x)) = x; a
\* truncated cell keeps the mate -1
C5_InvolutionProcessedCells ==
  (pc = "matched" /\ ~IsCubical) =>
    \A x \in 0..(N - 1) :
      IF Eligible(x)
      THEN /\ mate_[x] \in 0..(N - 1)
           /\ Eligible(mate_[x])
           /\ mate_[mate_[x]] = x
      ELSE mate_[x] = -1

\* a truncated generic matching with a matched pair and a skipped cell
C5_Witness ==
  /\ pc = "matched"
  /\ ~IsCubical
  /\ truncate
  /\ \E x \in 0..(N - 1) : mate_[x] = -1
  /\ \E x \in 0..(N - 1) : mate_[x] \notin {x, -1}

\* the shapes of x and y differ in exactly one axis
OneAxisApart(x, y) ==
  Cardinality({d \in 0..(Base.dim - 1) :
                 HasBit(Base.shape[x], d) # HasBit(Base.shape[y], d)}) = 1

\* C6: on a graded cubical complex mate(mate(x)) = x for every cell, a
\* matched pair has one grade and shapes that differ in exactly one axis,
\* and a fringe cell is its own mate
C6_CubicalInvolution ==
  (pc = "matched" /\ IsCubical) =>
    \A x \in Cells :
      /\ mate(mate(x)) = x
      /\ mate(x) # x => /\ value[mate(x)] = value[x]
                        /\ OneAxisApart(x, mate(x))
      /\ x \in Base.fringe => mate(x) = x

\* a cubical matching with a matched pair, an unmatched cell that is not
\* fringe, and two grades
C6_Witness ==
  /\ pc = "matched"
  /\ IsCubical
  /\ \E x \in Cells : mate(x) # x
  /\ \E x \in Cells \ Base.fringe : mate(x) = x
  /\ \E x, y \in Cells \ Base.fringe : value[x] # value[y]

\* the dimension of a cell
CellDim(x) == CHOOSE d \in 0..Base.dim : x \in CellsOfDim(d)

\* k is matched to its face q
Paired(k, q) == k \in Matched /\ q \in Base.bd[k] /\ mate(k) = q

\* the modified Hasse digraph: x -> y for a face y of x of the same grade,
\* the edge of a matched pair reversed
HasseEdge(x, y) ==
  /\ value[x] = value[y]
  /\ \/ y \in Base.bd[x] /\ ~Paired(x, y)
     \/ Paired(y, x)

RECURSIVE Sinkless(_)
\* what is left of S when cells without an outgoing edge are removed again
\* and again: empty exactly when the digraph on S has no cycle
Sinkless(S) ==
  LET sinks == {x \in S : \A y \in S : ~HasseEdge(x, y)}
  IN  IF sinks = {} THEN S ELSE Sinkless(S \ sinks)

\* C7: the modified Hasse digraph of either backend has no directed cycle
C7_Acyclic ==
  pc = "matched" => Sinkless(RealCells(Base)) = {}

\* a matching whose digraph has a path queen -> king -> another queen -> king
C7_Witness ==
  /\ pc = "matched"
  /\ \E q1, q2 \in RealCells(Base) : \E k1, k2 \in RealCells(Base) :
        /\ q1 # q2
        /\ Paired(k1, q1) /\ Paired(k2, q2)
        /\ HasseEdge(q1, k1) /\ HasseEdge(k1, q2) /\ HasseEdge(q2, k2)

\* the cells a matching leaves unmatched: not fringe, not truncated, own mate
Critical == {x \in Matched \ Base.fringe : Eligible(x) /\ mate(x) = x}

\* the top dimension of the matching
TopDim == IF IsCubical THEN Base.dim ELSE D

\* C8: the table of critical cells lists exactly the non-fringe,
\* non-truncated cells that are their own mate, each once, numbered
\* 0..n-1 in table order and ascending by dimension; the begin table has
\* D+2 entries, begin[d] counts the critical cells of dimension below d and
\* begin[D+1] = n
C8_CriticalCellsTable ==
  pc = "matched" =>
    LET n == Len(reindex_)
    IN  /\ {reindex_[i][1] : i \in 1..n} = Critical
        /\ Cardinality(Critical) = n
        /\ \A i \in 1..n : reindex_[i][2] = i - 1
        /\ \A i, j \in 1..n :
             i < j => CellDim(reindex_[i][1]) <= CellDim(reindex_[j][1])
        /\ DOMAIN begin_ = 0..(TopDim + 1)
        /\ \A d \in 0..(TopDim + 1) :
             begin_[d] = Cardinality({x \in Critical : CellDim(x) < d})
        /\ begin_[TopDim + 1] = n

\* a truncated matching with critical cells in two dimensions, a matched
\* pair and a truncated cell
C8_Witness ==
  /\ pc = "matched"
  /\ truncate
  /\ \E x, y \in Critical : CellDim(x) # CellDim(y)
  /\ \E x \in Matched : mate(x) \in Cells \ {x}
  /\ \E x \in Matched \ Base.fringe : ~Eligible(x)

\* C9: project(include(c)) = c for every chain of reduced cells, and
\* project of a single base cell is its new id when the cell is listed as
\* critical and the empty chain otherwise
C9_ProjectInclude ==
  pc = "complex" =>
    /\ \A c \in ChainsUpTo(0..(size - 1), MaxChain) : project(include(c)) = c
    /\ \A x \in Cells :
         LET listed == {i \in 1..Len(reindex_) : reindex_[i][1] = x}
         IN  project({x}) = {reindex_[i][2] : i \in listed}

\* a reduced complex with several cells, fewer than the base complex
C9_Witness ==
  /\ pc = "complex"
  /\ size >= 3
  /\ \E x \in Cells \ Base.fringe : project({x}) = {}
  /\ \E x \in Cells : project({x}) # {} /\ project({x}) # {x}

\* C10: under truncate, in both backends, a cell of grade above max_grade
\* is not matched (its mate is no other cell and it is no other cell's
\* mate) and is not listed as critical
C10_TruncatedUnmatchedUnlisted ==
  (pc = "matched" /\ truncate) =>
    \A x \in Matched \ Base.fringe :
      value[x] > max_grade =>
        /\ mate(x) \notin Cells \ {x}
        /\ \A y \in Matched \ {x} : mate(y) # x
        /\ \A i \in 1..Len(reindex_) : reindex_[i][1] # x

\* the cells of dimension above m have no entry in the mate table, are no
\* cell's mate and are not listed; the begin table ends with dimension m
CappedAt(m) ==
  /\ \A x \in Cells :
       CellDim(x) > m =>
         /\ x \notin DOMAIN mate_
         /\ \A y \in DOMAIN mate_ : mate_[y] # x
         /\ \A i \in 1..Len(reindex_) : reindex_[i][1] # x
  /\ DOMAIN begin_ = 0..(m + 1)

\* C11 as stated: a generic matching built with 0 <= match_dim <=
\* dimension is capped at match_dim
C11_CappedFromZero ==
  (pc = "matched" /\ ~IsCubical /\ match_dim \in 0..Base.dim) =>
    CappedAt(match_dim)

\* C11: a generic matching built with 1 <= match_dim <= dimension is capped
\* at match_dim: no cell of a higher dimension is matched or listed and the
\* begin table covers the dimensions 0..match_dim; every other match_dim
\* of the model (0 and -1) selects the full complex
C11_CappedFromOne ==
  (pc = "matched" /\ ~IsCubical) =>
    IF match_dim \in 1..Base.dim
    THEN CappedAt(match_dim)
    ELSE /\ DOMAIN mate_ = Cells
         /\ DOMAIN begin_ = 0..(Base.dim + 1)

\* a matching capped below the dimension of its complex, with a matched
\* pair and a cell left out
C11_Witness ==
  /\ pc = "matched"
  /\ ~IsCubical
  /\ match_dim \in 1..(Base.dim - 1)
  /\ \E x \in Cells : x \notin DOMAIN mate_
  /\ \E x \in DOMAIN mate_ : mate_[x] \notin {x, -1}

\* the sizes along the tower fall strictly
TowerFalls ==
  \A i \in 1..(Len(tower) - 1) :
    tower[i + 1].complex.size < tower[i].complex.size

\* C12: ConnectionMatrix terminates (it returns, or the matching throws the
\* closure error): no round's complex is larger than its input, the loop
\* goes on only while the size falls, it stops at the first round whose
\* output has the size of its input, and the complex returned has that size
C12_FixedPointTermination ==
  /\ []((entry = "ConnectionMatrix" /\ pc = "complex") => size <= Base.size)
  /\ [](entry = "ConnectionMatrix" => TowerFalls)
  /\ []((entry = "ConnectionMatrix" /\ pc = "returned") =>
          /\ size = Base.size
          /\ tower[Len(tower)].complex.size = Base.size)
  /\ (entry = "ConnectionMatrix" => <>(pc \in {"returned", "error"}))

\* ConnectionMatrix has returned after two rounds that made the complex
\* smaller and one that did not
C12_Witness ==
  /\ entry = "ConnectionMatrix"
  /\ pc = "returned"
  /\ Len(tower) >= 3
  /\ size > 0

\* the graded complex a reducer holds as base
BaseGraded == [complex |-> complex_, value |-> value]

\* C13: the tower ConnectionMatrixTower returns starts with the input, each
\* later element is the MorseGradedComplex of the one before and strictly
\* smaller, and its last element is the fixed point ConnectionMatrix
\* returns: reducing it once more leaves the size unchanged
C13_Tower ==
  /\ (entry = "ConnectionMatrix" => tower = << BaseGraded >>)
  /\ [][entry = "ConnectionMatrix" =>
          /\ tower'[1] = tower[1]
          /\ tower' # tower =>
                /\ tower[Len(tower)] = BaseGraded
                /\ tower' = Append(tower, [complex |-> NextComplex,
                                           value |-> graded_complex_mapping])
                /\ NextComplex.size < Base.size]_vars
  /\ []((entry = "ConnectionMatrix" /\ pc = "returned") =>
          /\ TowerFalls
          /\ tower[Len(tower)] = BaseGraded
          /\ size = Base.size)

\* a tower over a cubical complex with at least three elements
C13_Witness ==
  /\ entry = "ConnectionMatrix"
  /\ pc = "returned"
  /\ tower[1].complex.kind = "cubical"
  /\ Len(tower) >= 3
  /\ tower[Len(tower)].complex.size >= 2

RECURSIVE Rank(_)
\* the rank over the two-element field of a set of chains, by elimination
Rank(R) ==
  LET nz == R \ {{}}
  IN  IF nz = {} THEN 0
      ELSE LET r == CHOOSE x \in nz : TRUE
               p == CHOOSE c \in r : TRUE
           IN  1 + Rank({IF p \in x THEN ChainAdd(x, r) ELSE x :
                           x \in nz \ {r}})

\* the Betti number of a chain complex given the cells of each dimension
Betti(cells, column, d) ==
  Cardinality(cells[d]) - Rank({column[x] : x \in cells[d]})
    - Rank({column[x] : x \in cells[d + 1]})

\* the Betti numbers of the base complex, fringe cells left out
BaseBetti(d) ==
  Betti([e \in 0..(Base.dim + 1) |->
           IF e > Base.dim THEN {} ELSE CellsOfDim(e) \ Base.fringe],
        Base.bd, d)

\* the Betti numbers of the reduced complex
ReducedBetti(d) ==
  Betti([e \in 0..(dim_ + 1) |->
           IF e > dim_ THEN {} ELSE begin_[e]..(begin_[e + 1] - 1)],
        bd_, d)

\* every cell has the same grade
OneGrade == \A x, y \in Cells \ Base.fringe : value[x] = value[y]

\* C14: a matching of the whole complex, whatever cells it popped, gives a
\* reduced complex with the Betti numbers of its base; with one grade the
\* single edge reduces to one vertex, the triangle boundary to a vertex and
\* an edge with empty boundary, the solid triangle to one vertex
C14_BettiNumbers ==
  (pc = "complex" /\ ~truncate /\ TopDim = Base.dim) =>
    /\ \A d \in 0..Base.dim : ReducedBetti(d) = BaseBetti(d)
    /\ (OneGrade /\ Base = SingleEdge) => size = 1 /\ begin_[1] = 1
    /\ (OneGrade /\ Base = TriangleBoundary) =>
          /\ size = 2 /\ begin_[1] = 1
          /\ bd_[1] = {}
    /\ (OneGrade /\ Base = SolidTriangle) => size = 1 /\ begin_[1] = 1

\* the triangle boundary with one grade, reduced to a vertex and an edge
C14_Witness ==
  /\ pc = "complex"
  /\ ~truncate
  /\ TopDim = Base.dim
  /\ OneGrade
  /\ Base = TriangleBoundary
  /\ ReducedBetti(0) = 1 /\ ReducedBetti(1) = 1
  /\ \E x \in Cells : mate_[x] # x

\* some cell of the set has a boundary cell of a higher grade
ClosureViolatedIn(S) ==
  \E x \in S : \E y \in Base.bd[x] : value[y] > value[x]

\* C15 as stated: the generic constructor fails with the closure error
\* whenever some cell has a boundary cell of a higher grade, whichever cell
\* it is and whatever the options are
C15_ClosureErrorAnyCell ==
  (~IsCubical /\ pc # "start" /\ ClosureViolatedIn(Cells)) => pc = "error"

\* C15: the generic constructor fails with the closure error, and leaves no
\* matching, exactly when a cell it processes (of dimension at most D and,
\* under truncate, of grade at most max_grade) has a boundary cell of a
\* higher grade
C15_ClosureErrorProcessedCell ==
  (~IsCubical /\ pc # "start") =>
    /\ pc = "error" <=> ClosureViolatedIn({x \in 0..(N - 1) : Eligible(x)})
    /\ pc = "error" => mate_ = << >> /\ reindex_ = << >> /\ begin_ = << >>

\* the closure error under truncate and a match_dim cap
C15_Witness ==
  /\ pc = "error"
  /\ truncate
  /\ match_dim \in 1..(Base.dim - 1)
  /\ \E x \in Cells : value[x] > max_grade

\* C16: over a base with the closure property the grading MorseGradedComplex
\* returns gives each new cell the grade of the base cell it includes and
\* has the closure property on the induced boundary
C16_NewGradingClosure ==
  (pc = "complex" /\ ~ClosureViolatedIn(Cells \ Base.fringe)) =>
    \A a \in 0..(size - 1) :
      /\ graded_complex_mapping[a] = value[include_[a]]
      /\ \A b \in bd_[a] :
           graded_complex_mapping[b] <= graded_complex_mapping[a]

\* an induced boundary entry that goes down a grade and is no face
C16_Witness ==
  /\ pc = "complex"
  /\ ~ClosureViolatedIn(Cells \ Base.fringe)
  /\ \E a \in 0..(size - 1) : \E b \in bd_[a] :
        /\ graded_complex_mapping[b] < graded_complex_mapping[a]
        /\ include_[b] \notin Base.bd[include_[a]]

\* C17: for every chain c of reduced cells lift(c) holds no queen and
\* project(base.boundary(lift(c))) = M.boundary(c)
C17_Lift ==
  pc = "complex" =>
    \A c \in ChainsUpTo(0..(size - 1), MaxChain) :
      /\ \A x \in lift(c) : ~isQueen(x)
      /\ project(BaseBoundary(lift(c))) = boundary(c)

\* a reduced cell whose lift needs kings and whose induced boundary is not
\* empty
C17_Witness ==
  /\ pc = "complex"
  /\ \E a \in 0..(size - 1) :
        /\ lift({a}) # include({a})
        /\ boundary({a}) # {}

\* C18: with every matching compute_matching produces, under any options,
\* coflow(c) returns for every base chain c, and what it returns satisfies
\* cocanonical + base.coboundary(cogamma) = c, cocanonical holds no king,
\* and every cell of cogamma is a queen whose mate is a king
C18_CoflowDual ==
  /\ pc = "ub" => cogamma \subseteq Cells
  /\ pc = "coflowed" =>
       /\ cogamma \subseteq Cells
       /\ \A q \in cogamma : isQueen(q) /\ isKing(mate(q))
       /\ \A x \in cocanonical : ~isKing(x)
       /\ ChainAdd(cocanonical,
                   ChainSum([q \in Cells |-> row(q)], cogamma)) = input

\* C19: in every round of Homology(base, match_dim) the generic matching is
\* capped at match_dim: at match_dim itself when it lies in 1..dimension,
\* and it covers the whole complex otherwise
C19_HomologyCapped ==
  (entry = "Homology" /\ pc = "matched" /\ ~IsCubical) =>
    IF arg_match_dim \in 1..Base.dim
    THEN CappedAt(arg_match_dim)
    ELSE /\ DOMAIN mate_ = Cells
         /\ DOMAIN begin_ = 0..(Base.dim + 1)

\* C20: in a cubical matching, for every matched pair (q, k) and every
\* other queen q2 in base.boundary({k}), priority(q2) < priority(q)
C20_CubicalPriorityCompatible ==
  (pc = "matched" /\ IsCubical) =>
    \A q \in Cells \ Base.fringe :
      isQueen(q) =>
        \A q2 \in (Base.bd[mate(q)] \ {q}) \ Base.fringe :
          isQueen(q2) => priorityOf(q2) < priorityOf(q)

\* the cells the main loop has processed
Processed == {x \in DOMAIN mate_ : mate_[x] # -1}

\* C21: the priorities of the generic matching order the processed cells by
\* (grade, processing step): distinct processed cells have distinct
\* priorities and a cell of a lower grade has the lower priority;
\* priority(Q) < priority(K) for every matched pair, and every other queen
\* q2 in base.boundary({K}) has priority(q2) < priority(Q)
C21_GenericPriorities ==
  (pc \in {"matching", "matched"} /\ ~IsCubical) =>
    /\ \A x, y \in Processed :
         /\ x # y => priority_[x] # priority_[y]
         /\ value[x] < value[y] => priority_[x] < priority_[y]
    /\ \A K \in Processed :
         mate_[K] < K =>
           /\ priority_[mate_[K]] < priority_[K]
           /\ \A q2 \in Base.bd[K] \ {mate_[K]} :
                (q2 \in DOMAIN mate_ /\ q2 < mate_[q2]) =>
                  priority_[q2] < priority_[mate_[K]]

\* a matched pair whose king has another queen in its boundary, of a lower
\* grade and processed after the pair
C21_Witness ==
  /\ pc = "matched"
  /\ ~IsCubical
  /\ \E K \in Processed :
        /\ mate_[K] < K
        /\ \E q2 \in Base.bd[K] \ {mate_[K]} :
              /\ q2 < mate_[q2]
              /\ value[q2] < value[K]
              /\ priority_[q2] % M > priority_[mate_[K]] % M

\* the cells the main loop has to process
EligibleCells == {x \in 0..(N - 1) : Eligible(x)}

\* C22: the main loop of the generic constructor ends after at most M
\* iterations whatever it pops: while cells are left one of the two working
\* sets is not empty, every iteration processes one or two eligible cells
\* that were not processed before, num_processed counts them and never
\* passes M, and after the loop every eligible cell has its mate
C22_MainLoop ==
  /\ []((pc = "matching" /\ num_processed < M) =>
          (coreducible # {} \/ ace_candidates # {}))
  /\ []((pc \in {"matching", "matched"} /\ ~IsCubical) =>
          /\ M = Cardinality(EligibleCells)
          /\ Processed \subseteq EligibleCells
          /\ num_processed = Cardinality(Processed)
          /\ num_processed <= M)
  /\ [][(pc = "matching" /\ pc' = "matching") =>
          /\ Processed \subseteq Processed'
          /\ Cardinality(Processed' \ Processed) \in {1, 2}
          /\ num_processed' =
               num_processed + Cardinality(Processed' \ Processed)]_vars
  /\ []((pc = "matched" /\ ~IsCubical) => Processed = EligibleCells)
  /\ []((pc = "matching") => <>(pc = "matched"))

\* the loop is over after fewer than M iterations: a pair was matched, an
\* ace was made and truncation left a cell out
C22_Witness ==
  /\ pc = "matched"
  /\ ~IsCubical
  /\ M >= 3
  /\ \E x \in Processed : mate_[x] \notin {x, -1}
  /\ \E x \in Processed : mate_[x] = x
  /\ EligibleCells # 0..(N - 1)

\* the cells of the graded boundary of K that have no mate yet
Unmatched(K) == {x \in bd(K) : mate_[x] = -1}

\* C23: whatever cell K the main loop pops from coreducible, exactly one
\* cell of the graded boundary of K has mate -1, so the search for Q finds
\* one cell and no other
C23_UniqueQueen ==
  (pc = "matching" /\ num_processed < M) =>
    \A K \in coreducible : Cardinality(Unmatched(K)) = 1

\* a coreducible cell with two cells in its graded boundary, one of them
\* matched already
C23_Witness ==
  /\ pc = "matching"
  /\ num_processed < M
  /\ \E K \in coreducible :
        /\ Cardinality(bd(K)) >= 2
        /\ Cardinality(Unmatched(K)) = 1

\* the eligible cells the main loop has not processed yet
Unprocessed == EligibleCells \ Processed

\* C24: at the head of every iteration of the main loop, boundary_count[x]
\* of an unprocessed eligible cell x is the number of unprocessed cells in
\* its graded boundary, ace_candidates holds exactly the unprocessed
\* eligible cells of count 0 and coreducible exactly those of count 1
C24_BoundaryCount ==
  (pc = "matching" /\ ~IsCubical) =>
    /\ \A x \in Unprocessed :
         boundary_count[x] = Cardinality(bd(x) \cap Unprocessed)
    /\ ace_candidates = {x \in Unprocessed : boundary_count[x] = 0}
    /\ coreducible = {x \in Unprocessed : boundary_count[x] = 1}

\* in the middle of the loop: a count has fallen, a cell waits with a count
\* of two or more
C24_Witness ==
  /\ pc = "matching"
  /\ 0 < num_processed /\ num_processed < M
  /\ \E x \in Unprocessed : boundary_count[x] < Cardinality(bd(x))
  /\ \E x \in Unprocessed : boundary_count[x] >= 2
  /\ coreducible # {}

\* the matching of the round holds no matched pair
NoPair == \A x \in Processed : mate_[x] = x

\* C25: a generic round that matches no pair has no eligible cell with a
\* boundary cell of its own grade; so in the complex ConnectionMatrix
\* returns after at least one reduction every boundary entry lowers the
\* grade strictly, and the complex Homology returns has an empty boundary
C25_FixedPointBoundary ==
  /\ (pc = "matched" /\ ~IsCubical /\ NoPair) =>
        \A x \in EligibleCells : bd(x) = {}
  /\ (entry = "ConnectionMatrix" /\ pc = "returned" /\ Len(tower) >= 2) =>
        \A x \in Cells : \A y \in Base.bd[x] : value[y] < value[x]
  /\ (entry = "Homology" /\ pc = "returned") =>
        \A x \in Cells : Base.bd[x] = {}

\* ConnectionMatrix returns, after a reduction, a complex that still has a
\* boundary entry
C25_Witness ==
  /\ entry = "ConnectionMatrix"
  /\ pc = "returned"
  /\ Len(tower) >= 2
  /\ NoPair
  /\ \E x \in Cells : Base.bd[x] # {}

\* C26: verbose has no effect on the result. The run of the constructor
\* and the run with verbose = false on the same input, fed the same popped
\* cells, agree at every head of the main loop on the mate table, the
\* priorities, the working sets and the counter, leave the loop together
\* and end with the same tables of critical cells; the cubical constructor
\* for a plain complex ends with the same tables for either verbose
C26_VerboseNoEffect ==
  /\ (pc = "matching" /\ ~IsCubical) =>
        /\ quiet.mate_ = mate_
        /\ quiet.work = Work
  /\ (pc = "matched" /\ ~IsCubical) =>
        /\ quiet.mate_ = mate_
        /\ quiet.work.priority_ = priority_
        /\ ~(quiet.work.num_processed < M)
        /\ quiet.begin_ = begin_
        /\ quiet.reindex_ = reindex_
  /\ (pc = "matched" /\ IsCubical) =>
        /\ quiet.begin_ = begin_
        /\ quiet.reindex_ = reindex_

\* a generic matching built with verbose: pairs were matched, truncation
\* left cells out and the counter ends at N, past M
C26_Witness ==
  /\ pc = "matched"
  /\ ~IsCubical
  /\ verbose
  /\ num_processed = N
  /\ M < N
  /\ \E x \in Processed : mate_[x] \notin {x, -1}
  /\ Len(reindex_) > 0

====
